---- MODULE Spec2Model ----
(***************************************************************************)
(* Event alarm evaluator of aodh (aodh/evaluator/event.py).                *)
(*                                                                         *)
(* Python values are records [k, n, s]: k is the kind ("none", "str",      *)
(* "int", "float", "dt"), n the number of a numeric or datetime value and  *)
(* s the characters of a string (a sequence of one-character strings), so  *)
(* that int(), float(), fnmatch and the string order can be computed.      *)
(* Comparisons follow Python 3: ordering two values of unrelated kinds     *)
(* raises TypeError.                                                       *)
(***************************************************************************)
EXTENDS Integers, Sequences, FiniteSets, TLC

\* ------------------------------------------------------------------ bounds
MaxEvents == 2     \* events handed to evaluate_events, over all its calls
MaxTime  == 2      \* last instant of the clock
CacheTTL == 1      \* the positive value of event_alarm_cache_ttl
MaxExt   == 1      \* state changes made to storage by other services

\* ------------------------------------------------------------------ values
None      == [k |-> "none", n |-> 0, s |-> <<>>]
VStr(cs)  == [k |-> "str", n |-> 0, s |-> cs]
VInt(i)   == [k |-> "int", n |-> i, s |-> <<>>]
VFloat(i) == [k |-> "float", n |-> i, s |-> <<>>]
VDate(i)  == [k |-> "dt", n |-> i, s |-> <<>>]
VList(i)  == [k |-> "list", n |-> i, s |-> <<>>]

\* Python truthiness, as used by "not self.obj.get(...)".
Truthy(v) ==
    CASE v.k = "none" -> FALSE
      [] v.k = "str" -> v.s # <<>>
      [] v.k \in {"int", "float"} -> v.n # 0
      [] OTHER -> TRUE

Digits == <<"0", "1", "2", "3", "4", "5", "6", "7", "8", "9">>
IsDigit(c) == \E d \in 1..10 : Digits[d] = c
DigitVal(c) == (CHOOSE d \in 1..10 : Digits[d] = c) - 1

\* The characters of the model in ASCII order, for the order of strings.
Alphabet == <<"*", "-", ".", "0", "1", "2", "3", "4", "5", "6", "7", "8", "9",
              "?", "N", "T", "a", "b", "c", "e", "m", "n", "o", "p", "u", "v", "x">>
Ord(c) == CHOOSE j \in 1..Len(Alphabet) : Alphabet[j] = c

RECURSIVE DigitsVal(_, _)
DigitsVal(cs, acc) ==
    IF cs = <<>> THEN acc ELSE DigitsVal(Tail(cs), 10 * acc + DigitVal(Head(cs)))

AllDigits(cs) == cs # <<>> /\ \A j \in 1..Len(cs) : IsDigit(cs[j])

\* An integer literal: an optional sign, then digits.
IsIntLiteral(cs) ==
    /\ cs # <<>>
    /\ IF Head(cs) = "-" THEN AllDigits(Tail(cs)) ELSE AllDigits(cs)
IntLiteral(cs) ==
    IF Head(cs) = "-" THEN 0 - DigitsVal(Tail(cs), 0) ELSE DigitsVal(cs, 0)

RECURSIVE DigitsOf(_)
DigitsOf(i) ==
    IF i < 10 THEN <<Digits[i + 1]>> ELSE DigitsOf(i \div 10) \o <<Digits[(i % 10) + 1]>>

\* six.text_type(value)
TextType(v) ==
    CASE v.k = "str" -> v
      [] v.k = "none" -> VStr(<<"N", "o", "n", "e">>)
      [] OTHER -> VStr(IF v.n < 0 THEN <<"-">> \o DigitsOf(0 - v.n) ELSE DigitsOf(v.n))

Raised(e) == [ok |-> FALSE, val |-> None, exc |-> e]
Returned(v) == [ok |-> TRUE, val |-> v, exc |-> ""]

\* int(value): ValueError on a string that is no literal, TypeError on None.
PyInt(v) ==
    CASE v.k \in {"int", "float"} -> Returned(VInt(v.n))
      [] v.k = "str" -> IF IsIntLiteral(v.s) THEN Returned(VInt(IntLiteral(v.s))) ELSE Raised("ValueError")
      [] OTHER -> Raised("TypeError")

\* float(value), on the literals of the model (whole numbers).
PyFloat(v) ==
    CASE v.k \in {"int", "float"} -> Returned(VFloat(v.n))
      [] v.k = "str" -> IF IsIntLiteral(v.s) THEN Returned(VFloat(IntLiteral(v.s))) ELSE Raised("ValueError")
      [] OTHER -> Raised("TypeError")

\* timeutils.normalize_time(timeutils.parse_isotime(value)): the timestamps of
\* the model are written "T" followed by digits; anything else does not parse.
ParseIsoTime(v) ==
    IF v.k = "str" /\ v.s # <<>> /\ Head(v.s) = "T" /\ AllDigits(Tail(v.s))
    THEN Returned(VDate(DigitsVal(Tail(v.s), 0)))
    ELSE Raised(IF v.k = "str" THEN "ValueError" ELSE "TypeError")

\* Trait type codes are written as strings: "2" is the code 2.
_sanitize_trait_value(value, trait_type) ==
    IF trait_type \in {"2", "integer"} THEN PyInt(value)
    ELSE IF trait_type \in {"3", "float"} THEN PyFloat(value)
    ELSE IF trait_type \in {"4", "datetime"} THEN ParseIsoTime(value)
    ELSE Returned(TextType(value))

\* ------------------------------------------------------------------ events
\* A raw event: obj is "none" (None), "empty" ({}) or "dict"; a key the
\* dictionary lacks reads None; traits is the list of (name, type, value).
Trait(name, type, value) == [name |-> name, type |-> type, value |-> value]
Raw(obj, event_type, message_id, traits) ==
    [obj |-> obj, event_type |-> event_type, message_id |-> message_id,
     traits |-> traits]

P1 == VStr(<<"p", "1">>)
NoProject == VStr(<<>>)
TypeCU == <<"c", ".", "u">>
TypeVA == <<"v", ".", "a">>
M1 == VStr(<<"m", "1">>)
TenantP1 == Trait(<<"tenant_id">>, "1", P1)
ProjectP1 == Trait(<<"project_id">>, "string", P1)

RawEvents ==
    { Raw("none", None, None, <<>>),
      Raw("empty", None, None, <<>>),
      Raw("dict", None, M1, <<TenantP1>>),
      Raw("dict", VStr(TypeCU), None, <<TenantP1>>),
      Raw("dict", VStr(TypeCU), M1,
          <<TenantP1, Trait(<<"x">>, "2", VStr(<<"a", "b">>))>>),
      Raw("dict", VStr(TypeVA), M1, <<Trait(<<"x">>, "datetime", VStr(<<"7">>))>>),
      Raw("dict", VStr(TypeCU), M1, <<Trait(<<"x">>, "2", VStr(<<"7">>)), TenantP1>>),
      Raw("dict", VStr(TypeCU), M1, <<Trait(<<"x">>, "1", VStr(<<"7">>)), ProjectP1>>),
      Raw("dict", VStr(TypeCU), M1, <<Trait(<<"x">>, "1", VInt(3)), TenantP1>>),
      Raw("dict", VStr(TypeVA), M1, <<Trait(<<"x">>, "integer", VInt(3))>>),
      Raw("dict", VStr(TypeVA), M1, <<TenantP1, Trait(<<"x">>, "3", VStr(<<"9">>))>>) }

\* Variant: the check of message_id is left out.
ValidateNoMessageId(raw) ==
    \/ raw.obj \in {"none", "empty"}
    \/ ~Truthy(raw.event_type)
\* Event._validate: TRUE when it raises InvalidEvent.
_validate(raw) ==
    \/ raw.obj \in {"none", "empty"}
    \/ ~Truthy(raw.event_type)
    \/ ~Truthy(raw.message_id)

EmptyTraits == [t \in {} |-> None]
Put(f, key, v) == [t \in DOMAIN f \cup {key} |-> IF t = key THEN v ELSE f[t]]

\* Event._parse_traits: the traits in order, the last value of a name kept;
\* the first value that does not convert ends the loop with its exception.
RECURSIVE _parse_traits(_, _, _)
_parse_traits(ts, traits, project) ==
    IF ts = <<>> THEN [exc |-> "", traits |-> traits, project |-> project]
    ELSE LET t == Head(ts)
             r == _sanitize_trait_value(t.value, t.type)
         IN IF ~r.ok THEN [exc |-> r.exc, traits |-> traits, project |-> project]
            ELSE _parse_traits(Tail(ts), Put(traits, t.name, r.val),
                               IF t.name \in {<<"tenant_id">>, <<"project_id">>}
                               THEN r.val ELSE project)

\* Event.__init__: exc is "" when the event is built.
Event(raw) ==
    IF _validate(raw)
    THEN [exc |-> "InvalidEvent", obj |-> raw, id |-> None,
          traits |-> EmptyTraits, project |-> NoProject]
    ELSE LET p == _parse_traits(raw.traits, EmptyTraits, NoProject)
         IN [exc |-> p.exc, obj |-> raw, id |-> raw.message_id,
             traits |-> p.traits, project |-> p.project]

NoEvent == Event(Raw("none", None, None, <<>>))

\* Event.get_value: a field is the sequence of its dotted segments.
get_value(event, field) ==
    IF Len(field) >= 2 /\ field[1] = "traits"
    THEN IF Tail(field) \in DOMAIN event.traits THEN event.traits[Tail(field)] ELSE None
    ELSE LET top == CASE field[1] = "event_type" -> event.obj.event_type
                      [] field[1] = "message_id" -> event.obj.message_id
                      [] field[1] = "traits" -> VList(Len(event.obj.traits))
                      [] OTHER -> None
         IN IF Len(field) = 1 THEN top ELSE None

\* ------------------------------------------------------------- comparators
RECURSIVE StrLess(_, _)
StrLess(a, b) ==
    IF b = <<>> THEN FALSE
    ELSE IF a = <<>> THEN TRUE
    ELSE IF Head(a) # Head(b) THEN Ord(Head(a)) < Ord(Head(b))
    ELSE StrLess(Tail(a), Tail(b))

Numeric(v) == v.k \in {"int", "float"}
PyEq(v, w) == IF Numeric(v) /\ Numeric(w) THEN v.n = w.n ELSE v = w
Ordered(v, w) == (Numeric(v) /\ Numeric(w)) \/ (v.k = w.k /\ v.k \in {"str", "dt"})
PyLess(v, w) == IF v.k = "str" THEN StrLess(v.s, w.s) ELSE v.n < w.n

Bool(b) == IF b THEN "True" ELSE "False"

\* COMPARATORS[op](v, w): "True", "False" or the exception raised.
COMPARATORS(op, v, w) ==
    CASE op = "eq" -> Bool(PyEq(v, w))
      [] op = "ne" -> Bool(~PyEq(v, w))
      [] ~Ordered(v, w) -> "TypeError"
      [] op = "gt" -> Bool(PyLess(w, v))
      [] op = "lt" -> Bool(PyLess(v, w))
      [] op = "ge" -> Bool(~PyLess(v, w))
      [] op = "le" -> Bool(~PyLess(w, v))

Ops == {"gt", "lt", "ge", "le", "eq", "ne"}

\* A condition is a dictionary: keys names the keys it has.
Cond(keys, field, op, value) ==
    [keys |-> keys, field |-> field, op |-> op, value |-> value]

\* _compare(condition)
_compare(event, condition) ==
    LET op == IF "op" \in condition.keys THEN condition.op ELSE "eq"
    IN IF op \notin Ops THEN "KeyError"
       ELSE IF "field" \notin condition.keys THEN "KeyError"
       ELSE IF "value" \notin condition.keys THEN "KeyError"
       ELSE COMPARATORS(op, get_value(event, condition.field), condition.value)

\* fnmatch.fnmatch(name, pattern) on patterns of literals, "*" and "?".
RECURSIVE fnmatch(_, _)
fnmatch(name, pat) ==
    IF pat = <<>> THEN name = <<>>
    ELSE IF Head(pat) = "*"
         THEN fnmatch(name, Tail(pat)) \/ (name # <<>> /\ fnmatch(Tail(name), pat))
    ELSE /\ name # <<>>
         /\ Head(pat) = "?" \/ Head(pat) = Head(name)
         /\ fnmatch(Tail(name), Tail(pat))

\* ------------------------------------------------------------------ alarms
ALARM == "alarm"
States == {"ok", ALARM, "insufficient data"}

\* A rule is a dictionary: keys names the keys it has.
Rule(keys, event_type, query) ==
    [keys |-> keys, event_type |-> event_type, query |-> query]
Alarm(project_id, repeat_actions, enabled, type, rule) ==
    [project_id |-> project_id, repeat_actions |-> repeat_actions,
     enabled |-> enabled, type |-> type, rule |-> rule]

Full == {"field", "op", "value"}
TraitX == <<"traits", "x">>
BothKeys == {"event_type", "query"}

\* The alarms in storage; only their state changes.
AlarmIds == {"a1", "a2", "a3", "a4", "a5", "a6"}
Alarms ==
    [a \in AlarmIds |->
       CASE a = "a1" -> Alarm(P1, FALSE, TRUE, "event",
                              Rule(BothKeys, <<"c", ".", "*">>,
                                   <<Cond(Full, TraitX, "eq", VInt(7))>>))
         [] a = "a2" -> Alarm(P1, TRUE, TRUE, "event",
                              Rule(BothKeys, <<"*">>,
                                   <<Cond(Full, TraitX, "gt", VInt(5)),
                                     Cond({"field", "value"}, <<"event_type">>, "eq",
                                          VStr(TypeCU))>>))
         [] a = "a3" -> Alarm(P1, FALSE, TRUE, "event",
                              Rule(BothKeys, <<"c", ".", "?">>,
                                   <<Cond(Full, TraitX, "lt", VStr(<<"5">>)),
                                     Cond(Full, TraitX, "in", VStr(<<"5">>))>>))
         [] a = "a4" -> Alarm(NoProject, FALSE, TRUE, "event",
                              Rule(BothKeys, <<"v", ".", "*">>, <<>>))
         [] a = "a5" -> Alarm(NoProject, FALSE, TRUE, "event",
                              Rule({"query"}, <<>>, <<>>))
         [] a = "a6" -> Alarm(P1, FALSE, FALSE, "event",
                              Rule(BothKeys, <<"*">>, <<>>))]

\* Variant: the guard is left out.
GuardLeftOut(alarm, state) == FALSE
\* Variant: repeat_actions is not looked at.
AlreadyFiredAny(alarm, state) == state = ALARM
\* Variant: the negation of repeat_actions is lost.
AlreadyFiredRepeating(alarm, state) == alarm.repeat_actions /\ state = ALARM
\* The guard of _evaluate_alarm: the alarm has fired and does not repeat.
AlreadyFired(alarm, state) == ~alarm.repeat_actions /\ state = ALARM

\* Variant: the loop returns after its first condition.
FirstConditionOnly(event, query) ==
    IF query = <<>> THEN "fire"
    ELSE LET r == _compare(event, Head(query))
         IN IF r = "True" THEN "fire" ELSE IF r = "False" THEN "unmet" ELSE r

\* Variant: every condition is evaluated before the loop decides.
QueryLoopAll(event, query) ==
    LET raising == {k \in 1..Len(query) :
                      _compare(event, query[k]) \notin {"True", "False"}}
    IN IF raising # {}
       THEN _compare(event, query[CHOOSE k \in raising : \A j \in raising : k <= j])
       ELSE IF \A k \in 1..Len(query) : _compare(event, query[k]) = "True"
       THEN "fire" ELSE "unmet"

\* The loop over alarm.rule['query']: "fire" when every condition is true,
\* "unmet" at the first false one, the exception at the first that raises.
RECURSIVE QueryLoop(_, _)
QueryLoop(event, query) ==
    IF query = <<>> THEN "fire"
    ELSE LET r == _compare(event, Head(query))
         IN IF r = "True" THEN QueryLoop(event, Tail(query))
            ELSE IF r = "False" THEN "unmet"
            ELSE r

\* _evaluate_alarm up to the call of _fire_alarm: "skipped", "nomatch",
\* "unmet", the exception raised, or "fire".
_evaluate_alarm(alarm, state, event) ==
    IF AlreadyFired(alarm, state) THEN "skipped"
    ELSE IF "event_type" \notin alarm.rule.keys THEN "KeyError"
    ELSE IF ~fnmatch(event.obj.event_type.s, alarm.rule.event_type) THEN "nomatch"
    ELSE IF "query" \notin alarm.rule.keys THEN "KeyError"
    ELSE QueryLoop(event, alarm.rule.query)

\* ------------------------------------------------------------------- cache
\* Variant: the TTL is not tested.
CacheAlways(t) == TRUE
\* conf.event_alarm_cache_ttl, as a truth value.
CacheEnabled(t) == t # 0

\* Variants: the comparison is not strict; its operands are swapped.
OlderOrEqual(before, seconds, clock) == clock - before >= seconds
OlderReversed(before, seconds, clock) == before - clock < seconds
\* oslo_utils.timeutils.is_older_than(before, seconds):
\* utcnow() - before > timedelta(seconds=seconds).
is_older_than(before, seconds, clock) == clock - before > seconds

\* storage get_alarms(enabled=True, alarm_type='event', project=project), as
\* the dictionary alarm_id -> state of the alarm objects it returns.
get_alarms(st, project) ==
    [a \in {b \in AlarmIds : /\ Alarms[b].enabled
                             /\ Alarms[b].type = "event"
                             /\ Alarms[b].project_id = project} |-> st[a]]

Entry(alarms, updated) == [alarms |-> alarms, updated |-> updated]
\* Variant: the del of line 152 is left out.
Kept(f, key) == f
\* del f[key].
Without(f, key) == [t \in DOMAIN f \ {key} |-> f[t]]

\* ------------------------------------------------------------------- state
VARIABLES
    workers,   \* how many threads call evaluate_events on this evaluator
    ttl,       \* conf.event_alarm_cache_ttl
    now,       \* the clock read by timeutils.utcnow()
    ext,       \* changes other services may still make to storage
    store,     \* storage: alarm id -> state
    caches,    \* self.caches: project -> [alarms, updated]
    pc,        \* each thread's position in evaluate_events
    budget,    \* events that may still be handed to evaluate_events
    left,      \* events of the list not yet evaluated (the current one included)
    raw,       \* the raw event e of the current iteration
    ev,        \* the Event built from it
    cached,    \* whether the dictionary being iterated is the cache entry's
    alarms,    \* the dictionary being iterated, when it is not the cache entry's
    todo,      \* the alarms of the dictionary not yet evaluated for the event
    cur,       \* the alarm whose _refresh is being called
    outcome,   \* how each alarm's evaluation for the current event ended
    err,       \* the exception that left evaluate_events
    age,       \* the age of the cache entry the current lookup found, or -1
    prevGet,   \* project -> what the last _get_project_alarms returned, while
               \* nothing has written to the project's alarms since
    marked,    \* alarms refreshed since their project's cache entry was stored
    inflight,  \* what each thread's storage call in flight has read
    failed,    \* alarms whose last refresh raised, their state not written since
    batch,     \* a list of raw events handed to evaluate_events as a whole
    runs       \* what evaluate_events made of the list and of a permutation of it

vars == <<workers, ttl, now, ext, store, caches, pc, budget, left, raw, ev,
          cached, alarms, todo, cur, outcome, err, age, prevGet, marked,
          inflight, failed, batch, runs>>

\* The record of a lookup: the dictionary returned, whether storage was
\* called, and what the record it replaces said ("none" without one).
Lookup(result, fetched, prior) ==
    [result |-> result, fetched |-> fetched, prior |-> prior]
Prior(pg, p) ==
    IF p \in DOMAIN pg THEN (IF pg[p].fetched THEN "fetch" ELSE "hit") ELSE "none"

Threads == 1..2
NoAlarms == [a \in {} |-> "ok"]
NoCaches == [p \in {} |-> Entry(NoAlarms, 0)]
NoRaw == Raw("none", None, None, <<>>)

\* alarm.state of the alarm object thread i iterates over.
AlarmState(i, a) ==
    IF cached[i] THEN caches[ev[i].project].alarms[a] ELSE alarms[i][a]
Holding(i) == pc[i] \in {"alarms", "refresh"}

InitWith(n) ==
    /\ workers = n
    /\ ttl \in {0, CacheTTL}
    /\ now = 0
    /\ ext = MaxExt
    /\ store = [a \in AlarmIds |-> "ok"]
    /\ caches = NoCaches
    /\ pc = [i \in Threads |-> "idle"]
    /\ budget = MaxEvents
    /\ left = [i \in Threads |-> 0]
    /\ raw = [i \in Threads |-> NoRaw]
    /\ ev = [i \in Threads |-> NoEvent]
    /\ cached = [i \in Threads |-> FALSE]
    /\ alarms = [i \in Threads |-> NoAlarms]
    /\ todo = [i \in Threads |-> {}]
    /\ cur = [i \in Threads |-> ""]
    /\ outcome = [i \in Threads |-> NoAlarms]
    /\ err = [i \in Threads |-> ""]
    /\ age = [i \in Threads |-> -1]
    /\ prevGet = [p \in {} |-> Lookup(NoAlarms, FALSE, "none")]
    /\ marked = {}
    /\ inflight = [i \in Threads |-> NoAlarms]
    /\ failed = {}
    /\ batch = <<>>
    /\ runs = <<>>

Init == InitWith(1)

\* The threads other than i that iterate over the cache entry of project p
\* keep the dictionary when the entry is deleted or replaced.
Detached(i, p) ==
    {j \in Threads \ {i} : Holding(j) /\ cached[j] /\ ev[j].project = p}

\* The alarm loop of lines 137-144 goes on with the alarms td of the
\* dictionary m (c: it is the cache entry's), or, when none is left, the
\* event loop goes on with the next event. The threads det keep the
\* dictionary kept of an entry that left the cache.
Proceed(i, td, c, m, det, kept) ==
    /\ todo' = [todo EXCEPT ![i] = td]
    /\ pc' = [pc EXCEPT ![i] = IF td = {} THEN "loop" ELSE "alarms"]
    /\ left' = [left EXCEPT ![i] = IF td = {} THEN @ - 1 ELSE @]
    /\ cached' = [j \in Threads |-> IF j = i THEN c /\ td # {}
                                   ELSE IF j \in det THEN FALSE ELSE cached[j]]
    /\ alarms' = [j \in Threads |-> IF j = i THEN (IF td = {} THEN NoAlarms ELSE m)
                                   ELSE IF j \in det THEN kept ELSE alarms[j]]

Pending(ids) == [a \in ids |-> "pending"]
ProjectIds(p) == {a \in AlarmIds : Alarms[a].project_id = p}

\* What is known of the last lookups once storage changed from st to st2.
StillValid(pg, st, st2) ==
    [p \in {q \in DOMAIN pg : get_alarms(st, q) = get_alarms(st2, q)} |-> pg[p]]

\* evaluate_events is called with a list of n events or with one event.
Start(i) ==
    /\ pc[i] \in {"idle", "raised"}
    /\ \E isList \in BOOLEAN, n \in 0..budget :
          /\ isList \/ n = 1
          /\ left' = [left EXCEPT ![i] = n]
          /\ budget' = budget - n
    /\ pc' = [pc EXCEPT ![i] = "loop"]
    /\ raw' = [raw EXCEPT ![i] = NoRaw]
    /\ ev' = [ev EXCEPT ![i] = NoEvent]
    /\ outcome' = [outcome EXCEPT ![i] = NoAlarms]
    /\ err' = [err EXCEPT ![i] = ""]
    /\ age' = [age EXCEPT ![i] = -1]
    /\ cached' = [cached EXCEPT ![i] = FALSE]
    /\ alarms' = [alarms EXCEPT ![i] = NoAlarms]
    /\ UNCHANGED <<workers, ttl, now, ext, store, caches, todo, cur, prevGet, marked>>
    /\ UNCHANGED <<inflight, failed, batch, runs>>

\* The except clause of line 133.
CaughtAtEvent(exc) == exc = "InvalidEvent"

\* Lines 129-135: the next event of the list is wrapped.
NextEvent(i) ==
    /\ pc[i] = "loop"
    /\ left[i] > 0
    /\ \E e \in RawEvents :
         LET event == Event(e)
         IN /\ raw' = [raw EXCEPT ![i] = e]
            /\ outcome' = [outcome EXCEPT ![i] = NoAlarms]
            /\ age' = [age EXCEPT ![i] = -1]
            /\ IF event.exc = ""
               THEN /\ ev' = [ev EXCEPT ![i] = event]
                    /\ pc' = [pc EXCEPT ![i] = "get"]
                    /\ UNCHANGED <<left, err>>
               ELSE IF CaughtAtEvent(event.exc)
               THEN /\ left' = [left EXCEPT ![i] = @ - 1]
                    /\ ev' = [ev EXCEPT ![i] = NoEvent]
                    /\ UNCHANGED <<pc, err>>
               ELSE /\ pc' = [pc EXCEPT ![i] = "raised"]
                    /\ err' = [err EXCEPT ![i] = event.exc]
                    /\ ev' = [ev EXCEPT ![i] = NoEvent]
                    /\ UNCHANGED left
    /\ UNCHANGED <<workers, ttl, now, ext, store, caches, budget, cached, alarms,
                   todo, cur, prevGet, marked>>
    /\ UNCHANGED <<inflight, failed, batch, runs>>

\* Line 146: the list is exhausted.
Finish(i) ==
    /\ pc[i] = "loop"
    /\ left[i] = 0
    /\ pc' = [pc EXCEPT ![i] = "idle"]
    /\ raw' = [raw EXCEPT ![i] = NoRaw]
    /\ ev' = [ev EXCEPT ![i] = NoEvent]
    /\ outcome' = [outcome EXCEPT ![i] = NoAlarms]
    /\ age' = [age EXCEPT ![i] = -1]
    /\ cached' = [cached EXCEPT ![i] = FALSE]
    /\ alarms' = [alarms EXCEPT ![i] = NoAlarms]
    /\ UNCHANGED <<workers, ttl, now, ext, store, caches, budget, left, todo, cur,
                   err, prevGet, marked>>
    /\ UNCHANGED <<inflight, failed, batch, runs>>

\* _get_project_alarms, lines 149-154: the cache is consulted.
GetCheck(i) ==
    /\ pc[i] = "get"
    /\ LET p == ev[i].project
       IN IF CacheEnabled(ttl) /\ p \in DOMAIN caches
          THEN /\ age' = [age EXCEPT ![i] = now - caches[p].updated]
               /\ IF is_older_than(caches[p].updated, ttl, now)
                  THEN /\ caches' = Without(caches, p)
                       /\ marked' = marked \ ProjectIds(p)
                       /\ pc' = [pc EXCEPT ![i] = "fetch"]
                       /\ cached' = [j \in Threads |->
                                       IF j \in Detached(i, p) THEN FALSE ELSE cached[j]]
                       /\ alarms' = [j \in Threads |->
                                       IF j \in Detached(i, p) THEN caches[p].alarms
                                       ELSE alarms[j]]
                       /\ UNCHANGED <<todo, left, outcome, prevGet>>
                  ELSE /\ Proceed(i, DOMAIN caches[p].alarms, TRUE, NoAlarms, {},
                                  NoAlarms)
                       /\ outcome' = [outcome EXCEPT ![i] =
                                         Pending(DOMAIN caches[p].alarms)]
                       /\ prevGet' = Put(prevGet, p, Lookup(caches[p].alarms, FALSE,
                                                             Prior(prevGet, p)))
                       /\ UNCHANGED <<caches, marked>>
          ELSE /\ pc' = [pc EXCEPT ![i] = "fetch"]
               /\ UNCHANGED <<caches, marked, cached, alarms, todo, left, outcome,
                              prevGet, age>>
    /\ UNCHANGED <<workers, ttl, now, ext, store, budget, raw, ev, cur, err>>
    /\ UNCHANGED <<inflight, failed, batch, runs>>

\* _get_project_alarms, lines 163-169, with the dictionary d the storage
\* call returned: it becomes the cache entry when caching is on.
StoreFetched(i, p, d) ==
    /\ IF CacheEnabled(ttl)
       THEN /\ caches' = Put(caches, p, Entry(d, now))
            /\ marked' = marked \ ProjectIds(p)
            /\ Proceed(i, DOMAIN d, TRUE, NoAlarms,
                       IF p \in DOMAIN caches THEN Detached(i, p) ELSE {},
                       IF p \in DOMAIN caches THEN caches[p].alarms
                       ELSE NoAlarms)
       ELSE /\ Proceed(i, DOMAIN d, FALSE, d, {}, NoAlarms)
            /\ UNCHANGED <<caches, marked>>
    /\ outcome' = [outcome EXCEPT ![i] = Pending(DOMAIN d)]
    /\ prevGet' = Put(prevGet, p, Lookup(d, TRUE, Prior(prevGet, p)))
    /\ UNCHANGED err

\* The storage call of lines 158-161 raises; nothing in evaluate_events
\* catches it.
FetchRaises(i) ==
    /\ pc' = [pc EXCEPT ![i] = "raised"]
    /\ err' = [err EXCEPT ![i] = "StorageError"]
    /\ UNCHANGED <<caches, marked, cached, alarms, todo, left, outcome, prevGet>>

\* _get_project_alarms, lines 158-169: the storage call returns or raises.
GetFetch(i) ==
    /\ pc[i] = "fetch"
    /\ \E ok \in BOOLEAN :
         IF ok THEN StoreFetched(i, ev[i].project, get_alarms(store, ev[i].project))
         ELSE FetchRaises(i)
    /\ UNCHANGED <<workers, ttl, now, ext, store, budget, raw, ev, cur, age>>
    /\ UNCHANGED <<inflight, failed, batch, runs>>

\* Lines 158-161 when other threads run during the storage call: the call
\* reads storage, or raises.
FetchCall(i) ==
    /\ pc[i] = "fetch"
    /\ \E ok \in BOOLEAN :
         IF ok
         THEN /\ inflight' = [inflight EXCEPT ![i] = get_alarms(store, ev[i].project)]
              /\ pc' = [pc EXCEPT ![i] = "fetched"]
              /\ UNCHANGED <<caches, marked, cached, alarms, todo, left, outcome,
                             prevGet, err>>
         ELSE /\ FetchRaises(i)
              /\ UNCHANGED inflight
    /\ UNCHANGED <<workers, ttl, now, ext, store, budget, raw, ev, cur, age>>
    /\ UNCHANGED <<failed, batch, runs>>

\* ... and lines 163-169 once it has returned what it read.
FetchReturn(i) ==
    /\ pc[i] = "fetched"
    /\ StoreFetched(i, ev[i].project, inflight[i])
    /\ inflight' = [inflight EXCEPT ![i] = NoAlarms]
    /\ UNCHANGED <<workers, ttl, now, ext, store, budget, raw, ev, cur, age>>
    /\ UNCHANGED <<failed, batch, runs>>

\* Variant: the clause names InvalidEvent, as the one of line 133 does.
CaughtOnlyInvalid(exc) == exc = "InvalidEvent"
\* Variant: the clause lets what the refresh collaborator raises through.
CaughtButRefresh(exc) == exc # "RefreshError"
\* The except clause of line 141.
CaughtAtAlarm(exc) == TRUE

\* Lines 139-144 with _evaluate_alarm up to _fire_alarm's call of _refresh.
EvalAlarm(i) ==
    /\ pc[i] = "alarms"
    /\ \E a \in todo[i] :
         LET r == _evaluate_alarm(Alarms[a], AlarmState(i, a), ev[i])
         IN IF r = "fire"
            THEN /\ pc' = [pc EXCEPT ![i] = "refresh"]
                 /\ cur' = [cur EXCEPT ![i] = a]
                 /\ todo' = [todo EXCEPT ![i] = @ \ {a}]
                 /\ UNCHANGED <<left, cached, alarms, outcome, err>>
            ELSE IF r \in {"skipped", "nomatch", "unmet"} \/ CaughtAtAlarm(r)
            THEN /\ Proceed(i, todo[i] \ {a}, cached[i], alarms[i], {}, NoAlarms)
                 /\ outcome' = [outcome EXCEPT ![i][a] = r]
                 /\ UNCHANGED <<cur, err>>
            ELSE /\ pc' = [pc EXCEPT ![i] = "raised"]
                 /\ err' = [err EXCEPT ![i] = r]
                 /\ outcome' = [outcome EXCEPT ![i][a] = r]
                 /\ UNCHANGED <<cur, todo, left, cached, alarms>>
    /\ UNCHANGED <<workers, ttl, now, ext, store, caches, budget, raw, ev, prevGet,
                   marked, age>>
    /\ UNCHANGED <<inflight, failed, batch, runs>>

\* Variant: the state of line 216 is 'ok'.
FiredStateOk == "ok"
\* _fire_alarm, line 216: state = evaluator.ALARM.
FiredState == ALARM

\* The refresh collaborator (Evaluator._refresh) persists the state.
refresh(st, a, state) == [st EXCEPT ![a] = state]

\* Variant: line 229 sets the state of every alarm of the entry.
MarkAll(c, t, p, a, state) ==
    IF CacheEnabled(t) /\ p \in DOMAIN c
    THEN [c EXCEPT ![p].alarms = [b \in DOMAIN @ |-> state]]
    ELSE c
\* Variant: line 229 is left out.
KeepCache(c, t, p, a, state) == c
\* Lines 227-229: the state of the cached copy is set in place.
MarkCache(c, t, p, a, state) ==
    IF CacheEnabled(t) /\ p \in DOMAIN c
    THEN [c EXCEPT ![p].alarms[a] = state]
    ELSE c

\* _fire_alarm and _refresh, lines 216-229: the collaborator returns or
\* raises; line 229 raises KeyError when the entry lacks the alarm.
Refresh(i) ==
    /\ pc[i] = "refresh"
    /\ LET a == cur[i]
           p == Alarms[a].project_id
           lacks == CacheEnabled(ttl) /\ p \in DOMAIN caches
                    /\ a \notin DOMAIN caches[p].alarms
       IN \E ok \in BOOLEAN :
            /\ IF ok
               THEN /\ store' = refresh(store, a, FiredState)
                    /\ caches' = IF lacks THEN caches
                                 ELSE MarkCache(caches, ttl, p, a, FiredState)
                    /\ marked' = IF CacheEnabled(ttl) /\ p \in DOMAIN caches /\ ~lacks
                                 THEN marked \cup {a} ELSE marked
                    /\ outcome' = [outcome EXCEPT ![i][a] =
                                      IF lacks THEN "KeyError" ELSE "fired"]
               ELSE /\ outcome' = [outcome EXCEPT ![i][a] = "RefreshError"]
                    /\ UNCHANGED <<store, caches, marked>>
            /\ IF CaughtAtAlarm(IF ok THEN "KeyError" ELSE "RefreshError")
                  \/ (ok /\ ~lacks)
               THEN /\ Proceed(i, todo[i], cached[i], alarms[i], {}, NoAlarms)
                    /\ UNCHANGED err
               ELSE /\ pc' = [pc EXCEPT ![i] = "raised"]
                    /\ err' = [err EXCEPT ![i] = IF ok THEN "KeyError" ELSE "RefreshError"]
                    /\ UNCHANGED <<todo, left, cached, alarms>>
    /\ cur' = [cur EXCEPT ![i] = ""]
    /\ prevGet' = IF outcome'[i][cur[i]] = "RefreshError" THEN prevGet
                  ELSE Without(prevGet, Alarms[cur[i]].project_id)
    /\ failed' = IF outcome'[i][cur[i]] = "RefreshError" THEN failed \cup {cur[i]}
                 ELSE failed \ {cur[i]}
    /\ UNCHANGED <<workers, ttl, now, ext, budget, raw, ev, age, inflight, batch, runs>>

\* Time passes.
Tick ==
    /\ now < MaxTime
    /\ now' = now + 1
    /\ UNCHANGED <<workers, ttl, ext, store, caches, pc, budget, left, raw, ev,
                   cached, alarms, todo, cur, outcome, err, age, prevGet, marked>>
    /\ UNCHANGED <<inflight, failed, batch, runs>>

\* Another service sets the state of an alarm in storage.
ExtAlarms == {"a1"}
ExternalChange ==
    /\ ext > 0
    /\ \E a \in ExtAlarms, s \in States :
         /\ store[a] # s
         /\ store' = [store EXCEPT ![a] = s]
    /\ ext' = ext - 1
    /\ prevGet' = StillValid(prevGet, store, store')
    /\ failed' = {a \in failed : store'[a] = store[a]}
    /\ UNCHANGED <<workers, ttl, now, caches, pc, budget, left, raw, ev, cached,
                   alarms, todo, cur, outcome, err, age, marked, inflight, batch, runs>>

Next ==
    \/ \E i \in 1..workers : Start(i)
    \/ \E i \in 1..workers : NextEvent(i)
    \/ \E i \in 1..workers : Finish(i)
    \/ \E i \in 1..workers : GetCheck(i)
    \/ \E i \in 1..workers : GetFetch(i)
    \/ \E i \in 1..workers : EvalAlarm(i)
    \/ \E i \in 1..workers : Refresh(i)
    \/ Tick
    \/ ExternalChange

Spec == Init /\ [][Next]_vars

\* Two threads call evaluate_events on one evaluator; a thread may run
\* while the storage call of the other is in flight.
NextConcurrent ==
    \/ \E i \in 1..workers : Start(i)
    \/ \E i \in 1..workers : NextEvent(i)
    \/ \E i \in 1..workers : Finish(i)
    \/ \E i \in 1..workers : GetCheck(i)
    \/ \E i \in 1..workers : FetchCall(i)
    \/ \E i \in 1..workers : FetchReturn(i)
    \/ \E i \in 1..workers : EvalAlarm(i)
    \/ \E i \in 1..workers : Refresh(i)
    \/ Tick

SpecConcurrent == InitWith(2) /\ [][NextConcurrent]_vars

\* ------------------------------------------- evaluate_events, as a whole
\* One call of evaluate_events with no other thread and the clock at rest,
\* storage and the refresh collaborator answering: what it makes of the
\* storage st and the cache c, how often it invokes refresh for each alarm,
\* and the exception that leaves it ("" when none does).
Run(st, c, fires, exc) == [store |-> st, caches |-> c, fires |-> fires, exc |-> exc]

\* _get_project_alarms: the cache after it and the dictionary it returns.
_get_project_alarms(c, st, t, clock, project) ==
    IF /\ CacheEnabled(t) /\ project \in DOMAIN c
       /\ ~is_older_than(c[project].updated, t, clock)
    THEN [caches |-> c, alarms |-> c[project].alarms]
    ELSE LET d == get_alarms(st, project)
         IN [caches |-> IF CacheEnabled(t) THEN Put(c, project, Entry(d, clock))
                        ELSE c,
             alarms |-> d]

\* The alarm loop of lines 137-144 over the alarms ids of the dictionary d.
RECURSIVE AlarmLoop(_, _, _, _, _)
AlarmLoop(ids, event, d, r, t) ==
    IF ids = {} \/ r.exc # "" THEN r
    ELSE LET a == CHOOSE x \in ids : TRUE
             v == _evaluate_alarm(Alarms[a], d[a], event)
             r2 == IF v = "fire"
                   THEN [r EXCEPT !.store = refresh(@, a, FiredState),
                                  !.caches = MarkCache(@, t, Alarms[a].project_id,
                                                       a, FiredState),
                                  !.fires[a] = @ + 1]
                   ELSE IF v \in {"skipped", "nomatch", "unmet"} \/ CaughtAtAlarm(v)
                   THEN r
                   ELSE [r EXCEPT !.exc = v]
         IN AlarmLoop(ids \ {a}, event, d, r2, t)

\* The event loop of lines 129-144.
RECURSIVE evaluate_events(_, _, _, _)
evaluate_events(events, r, t, clock) ==
    IF events = <<>> \/ r.exc # "" THEN r
    ELSE LET event == Event(Head(events))
         IN IF event.exc # ""
            THEN IF CaughtAtEvent(event.exc)
                 THEN evaluate_events(Tail(events), r, t, clock)
                 ELSE [r EXCEPT !.exc = event.exc]
            ELSE LET g == _get_project_alarms(r.caches, r.store, t, clock,
                                              event.project)
                 IN evaluate_events(Tail(events),
                                    AlarmLoop(DOMAIN g.alarms, event, g.alarms,
                                              [r EXCEPT !.caches = g.caches], t),
                                    t, clock)

\* The lists of at most MaxEvents raw events, and the orders of n places.
Batches == UNION {[1..n -> RawEvents] : n \in 0..MaxEvents}
Orders(n) == {f \in [1..n -> 1..n] : \A j, k \in 1..n : f[j] = f[k] => j = k}

\* A caller makes up a list of events.
ChooseBatch ==
    /\ batch = <<>>
    /\ runs = <<>>
    /\ batch' \in Batches \ {<<>>}
    /\ UNCHANGED <<workers, ttl, now, ext, store, caches, pc, budget, left, raw, ev,
                   cached, alarms, todo, cur, outcome, err, age, prevGet, marked,
                   inflight, failed, runs>>

\* evaluate_events is called with the list, and, from the same storage and
\* cache, with the list in another order.
RunBatch ==
    /\ batch # <<>>
    /\ runs = <<>>
    /\ \E f \in Orders(Len(batch)) :
         LET r == Run(store, caches, [a \in AlarmIds |-> 0], "")
         IN runs' = <<evaluate_events(batch, r, ttl, now),
                      evaluate_events([k \in 1..Len(batch) |-> batch[f[k]]], r, ttl, now)>>
    /\ UNCHANGED <<workers, ttl, now, ext, store, caches, pc, budget, left, raw, ev,
                   cached, alarms, todo, cur, outcome, err, age, prevGet, marked,
                   inflight, failed, batch>>

NextBatch ==
    \/ ChooseBatch
    \/ RunBatch

SpecBatch == Init /\ [][NextBatch]_vars

\* ------------------------------------------------------------ observations
\* Thread i's step evaluates alarm a for the current event.
Evaluates(i, a) ==
    /\ pc[i] = "alarms"
    /\ a \in todo[i]
    /\ \/ pc'[i] = "refresh" /\ cur'[i] = a
       \/ outcome[i][a] = "pending" /\ outcome'[i][a] # "pending"

\* ... and goes on to call the refresh collaborator for it.
InvokesRefresh(i, a) == pc[i] = "alarms" /\ pc'[i] = "refresh" /\ cur'[i] = a

\* Thread i's step reads the next raw event of its list.
Consumes(i) ==
    pc[i] = "loop" /\ left[i] > 0 /\ (pc'[i] # "loop" \/ left'[i] # left[i])

\* Thread i's step enters _get_project_alarms.
Looks(i) == pc[i] = "get" /\ pc'[i] # "get"

\* The raw event is empty or absent, or has no event_type or no message_id.
Lacking(e) ==
    \/ e.obj \in {"none", "empty"}
    \/ e.event_type.k = "none"
    \/ e.message_id.k = "none"

\* The raw event has both and a trait whose value does not convert.
BadTrait(e) ==
    /\ ~Lacking(e)
    /\ \E k \in 1..Len(e.traits) :
          ~_sanitize_trait_value(e.traits[k].value, e.traits[k].type).ok

\* The pattern of the rule matches the event's type and each condition of
\* its query is true of the event.
RuleHolds(alarm, event) ==
    /\ {"event_type", "query"} \subseteq alarm.rule.keys
    /\ fnmatch(event.obj.event_type.s, alarm.rule.event_type)
    /\ \A k \in 1..Len(alarm.rule.query) :
          _compare(event, alarm.rule.query[k]) = "True"

AlarmErrors == {"KeyError", "TypeError", "RefreshError"}

\* The event is dropped: the loop goes on with the next raw event and
\* nothing was looked up, refreshed or cached.
Dropped(i) ==
    /\ pc'[i] = "loop"
    /\ left'[i] = left[i] - 1
    /\ err'[i] = ""
    /\ caches' = caches
    /\ store' = store

\* ------------------------------------------------------------------ claims
\* C1: an alarm with repeat_actions false whose state is 'alarm' when it is
\* evaluated is skipped: refresh is not invoked for it and nothing is
\* written, whatever the event.
C1_NoRefireWhenFired ==
    [][\A i \in Threads, a \in AlarmIds :
          (Evaluates(i, a) /\ ~Alarms[a].repeat_actions /\ AlarmState(i, a) = ALARM)
          => /\ ~InvokesRefresh(i, a)
             /\ outcome'[i][a] = "skipped"
             /\ store' = store
             /\ caches' = caches]_vars

\* A fired alarm that does not repeat was skipped for an event its rule holds of.
C1_Witness ==
    \E i \in Threads, a \in AlarmIds :
        /\ a \in DOMAIN outcome[i]
        /\ outcome[i][a] = "skipped"
        /\ ~Alarms[a].repeat_actions
        /\ RuleHolds(Alarms[a], ev[i])

\* C2: a failure of the storage fetch of one event's lookup does not leave
\* evaluate_events; the later events of the batch are still evaluated.
C2_StorageFailureConfined ==
    \A i \in Threads : err[i] = "StorageError" => pc[i] # "raised"

\* C3: a raw event with event_type and message_id and a trait value that
\* does not convert is dropped as an invalid event: no lookup, no refresh,
\* and the loop goes on with the next raw event.
C3_BadTraitDropped ==
    [][\A i \in Threads : (Consumes(i) /\ BadTrait(raw'[i])) => Dropped(i)]_vars

\* C4: when the evaluation or the firing of an alarm raises, the exception
\* is confined to it: the loop goes on with the other alarms of the
\* dictionary, which fire exactly when their rule holds, and then with the
\* next event; at the end of an event every alarm returned was evaluated.
C4_AlarmIsolation ==
    /\ [](\A i \in Threads : pc[i] = "loop" =>
             \A a \in DOMAIN outcome[i] : outcome[i][a] # "pending")
    /\ [][\A i \in Threads, a \in AlarmIds :
            /\ (/\ pc[i] \in {"alarms", "refresh"}
                /\ a \in DOMAIN outcome[i] /\ a \in DOMAIN outcome'[i]
                /\ outcome[i][a] = "pending" /\ outcome'[i][a] \in AlarmErrors)
               => /\ todo'[i] = todo[i] \ {a}
                  /\ pc'[i] = IF todo'[i] = {} THEN "loop" ELSE "alarms"
                  /\ left'[i] = IF todo'[i] = {} THEN left[i] - 1 ELSE left[i]
                  /\ err'[i] = ""
            /\ (/\ Evaluates(i, a)
                /\ \E b \in DOMAIN outcome[i] : outcome[i][b] \in AlarmErrors)
               => (InvokesRefresh(i, a) <=>
                     /\ ~(~Alarms[a].repeat_actions /\ AlarmState(i, a) = ALARM)
                     /\ RuleHolds(Alarms[a], ev[i]))]_vars

\* After one alarm of the event raised, refresh is being called for another.
C4_Witness ==
    \E i \in Threads :
        /\ pc[i] = "refresh"
        /\ \E b \in DOMAIN outcome[i] : outcome[i][b] \in {"KeyError", "TypeError"}

\* C5: a raw event that is empty or absent or lacks event_type or
\* message_id is dropped: no lookup, no refresh, the cache unchanged, and the
\* loop goes on with the next raw event.
C5_InvalidEventDropped ==
    [][\A i \in Threads : (Consumes(i) /\ Lacking(raw'[i])) => Dropped(i)]_vars

\* A dictionary without message_id or event_type was dropped and events remain.
C5_Witness ==
    \E i \in Threads :
        /\ pc[i] = "loop"
        /\ raw[i].obj = "dict"
        /\ Lacking(raw[i])
        /\ left[i] > 0

\* What a lookup that finds an entry of project p does when the entry counts
\* as expired exactly if expired holds.
LookupBy(i, p, expired) ==
    /\ expired => /\ p \notin DOMAIN caches'
                  /\ pc'[i] = "fetch"
    /\ ~expired => /\ caches' = caches
                   /\ pc'[i] \in {"alarms", "loop"}
                   /\ prevGet'[p].result = caches[p].alarms
                   /\ ~prevGet'[p].fetched

\* C6, as claimed: with a positive TTL a lookup that finds an entry discards
\* it and fetches exactly when now - updated >= TTL.
C6_ExpiresAtTTL ==
    [][\A i \in Threads :
          (Looks(i) /\ ttl > 0 /\ ev[i].project \in DOMAIN caches)
          => LookupBy(i, ev[i].project, now - caches[ev[i].project].updated >= ttl)]_vars

\* C6, amended: with a positive TTL a lookup that finds an entry discards it
\* and fetches exactly when now - updated > TTL; while now - updated <= TTL
\* it returns the cached dictionary and calls storage not at all.
C6_ExpiresAfterTTL ==
    [][\A i \in Threads :
          (Looks(i) /\ ttl > 0 /\ ev[i].project \in DOMAIN caches)
          => LookupBy(i, ev[i].project, now - caches[ev[i].project].updated > ttl)]_vars

\* An entry older than the TTL was discarded and storage is being called.
C6_Witness ==
    \E i \in Threads : pc[i] = "fetch" /\ ttl > 0 /\ age[i] > ttl

\* C7: with a positive TTL, a lookup within the TTL window of the entry,
\* after an earlier lookup of the project and with no write to storage in
\* between, returns a dictionary equal to the earlier one and calls storage
\* not at all; when the earlier one fetched, the two made one fetch.
C7_CacheIdempotent ==
    [][\A i \in Threads :
          LET p == ev[i].project
          IN (/\ Looks(i) /\ ttl > 0
              /\ p \in DOMAIN prevGet /\ p \in DOMAIN caches
              /\ now - caches[p].updated < ttl)
             => /\ pc'[i] \in {"alarms", "loop"}
                /\ p \in DOMAIN prevGet'
                /\ prevGet'[p].result = prevGet[p].result
                /\ ~prevGet'[p].fetched
                /\ store' = store /\ caches' = caches
                /\ prevGet[p].fetched =>
                     (IF prevGet[p].fetched THEN 1 ELSE 0)
                     + (IF prevGet'[p].fetched THEN 1 ELSE 0) = 1]_vars

\* A second lookup within the window was served from the cache.
C7_Witness ==
    \E i \in Threads :
        /\ ttl > 0
        /\ pc[i] = "alarms"
        /\ age[i] >= 0 /\ age[i] < ttl
        /\ ev[i].project \in DOMAIN prevGet
        /\ ~prevGet[ev[i].project].fetched
        /\ prevGet[ev[i].project].prior = "fetch"

\* C8: with TTL 0 every lookup calls storage and the cache stays empty.
C8_NoCacheAtZero ==
    /\ [](ttl = 0 => DOMAIN caches = {})
    /\ [][\A i \in Threads : (Looks(i) /\ ttl = 0) => pc'[i] = "fetch"]_vars

\* With TTL 0 an alarm has fired and a later lookup is calling storage.
C8_Witness ==
    /\ ttl = 0
    /\ \E i \in Threads : pc[i] = "fetch"
    /\ \E a \in AlarmIds \ ExtAlarms : store[a] = ALARM

\* C9: an alarm the guard does not skip is fired (refresh invoked) exactly
\* when its pattern matches the event's type and every condition of its
\* query is true; otherwise nothing is written.
C9_FiresIffRuleHolds ==
    [][\A i \in Threads, a \in AlarmIds :
          (/\ Evaluates(i, a)
           /\ ~(~Alarms[a].repeat_actions /\ AlarmState(i, a) = ALARM))
          => /\ InvokesRefresh(i, a) <=> RuleHolds(Alarms[a], ev[i])
             /\ ~InvokesRefresh(i, a) => store' = store /\ caches' = caches]_vars

\* Refresh is being called for an alarm whose query has two conditions.
C9_Witness ==
    \E i \in Threads :
        /\ pc[i] = "refresh"
        /\ Len(Alarms[cur[i]].rule.query) >= 2
        /\ RuleHolds(Alarms[cur[i]], ev[i])

\* C10: when an alarm fires with a positive TTL and an entry of its project
\* is cached, the cached copy's state becomes 'alarm'; a later lookup
\* within the TTL window returns it in that state and calls storage not at all.
C10_CachedStateMarked ==
    /\ [](\A a \in marked :
             /\ Alarms[a].project_id \in DOMAIN caches
             /\ caches[Alarms[a].project_id].alarms[a] = ALARM)
    /\ [][\A i \in Threads :
            /\ (/\ pc[i] = "refresh" /\ pc'[i] # "refresh"
                /\ store'[cur[i]] = ALARM /\ outcome'[i][cur[i]] = "fired"
                /\ ttl > 0 /\ Alarms[cur[i]].project_id \in DOMAIN caches)
               => /\ cur[i] \in marked'
                  /\ caches'[Alarms[cur[i]].project_id].alarms[cur[i]] = ALARM
            /\ (/\ Looks(i) /\ ttl > 0 /\ ev[i].project \in DOMAIN caches
                /\ now - caches[ev[i].project].updated < ttl)
               => \A a \in marked \cap ProjectIds(ev[i].project) :
                     /\ pc'[i] \in {"alarms", "loop"}
                     /\ prevGet'[ev[i].project].result[a] = ALARM]_vars

\* After an alarm fired, a lookup within the window returned it as 'alarm'.
C10_Witness ==
    \E i \in Threads, a \in marked :
        /\ pc[i] = "alarms"
        /\ ev[i].project = Alarms[a].project_id
        /\ age[i] >= 0 /\ age[i] < ttl
        /\ ev[i].project \in DOMAIN prevGet
        /\ ~prevGet[ev[i].project].fetched
        /\ prevGet[ev[i].project].result[a] = ALARM

\* The step stores a fetched dictionary as the cache entry of a project.
StoresEntry ==
    \E i \in Threads : pc[i] \in {"fetch", "fetched"} /\ pc'[i] \notin {"fetch", "fetched"}

\* C11: every state the evaluator writes is 'alarm': a step of
\* evaluate_events that changes an alarm's state in storage (the state
\* passed to refresh) or the state of a cached alarm in place sets it to
\* 'alarm', so no alarm in state 'alarm' is moved out of it by the evaluator.
C11_OnlyAlarmWritten ==
    [][/\ \A a \in AlarmIds :
            (ext' = ext /\ store'[a] # store[a]) => store'[a] = ALARM
       /\ \A p \in DOMAIN caches \cap DOMAIN caches' :
            \A a \in DOMAIN caches[p].alarms \cap DOMAIN caches'[p].alarms :
               (~StoresEntry /\ caches'[p].alarms[a] # caches[p].alarms[a])
               => caches'[p].alarms[a] = ALARM]_vars

\* An alarm fired: it is 'alarm' in storage and in the cache entry, next to
\* an alarm of the entry that is not.
C11_Witness ==
    \E i \in Threads, a \in AlarmIds \ ExtAlarms :
        /\ a \in DOMAIN outcome[i]
        /\ outcome[i][a] = "fired"
        /\ store[a] = ALARM
        /\ Alarms[a].project_id \in DOMAIN caches
        /\ caches[Alarms[a].project_id].alarms[a] = ALARM
        /\ \E b \in DOMAIN caches[Alarms[a].project_id].alarms :
              caches[Alarms[a].project_id].alarms[b] = "ok"

\* C12: when two calls of evaluate_events on one evaluator with a positive
\* TTL interleave at the storage call and at refresh, then once both have
\* completed every alarm that refresh set to 'alarm' is 'alarm' in the
\* current cache entry of its project.
C12_NoLostUpdate ==
    (ttl > 0 /\ \A i \in Threads : pc[i] = "idle")
    => \A a \in AlarmIds :
          (/\ store[a] = ALARM
           /\ Alarms[a].project_id \in DOMAIN caches
           /\ a \in DOMAIN caches[Alarms[a].project_id].alarms)
          => caches[Alarms[a].project_id].alarms[a] = ALARM

\* The place of the first condition of the query that is not true of the
\* event, 0 when every condition is true.
FirstNotTrue(event, query) ==
    IF \A k \in 1..Len(query) : _compare(event, query[k]) = "True" THEN 0
    ELSE CHOOSE k \in 1..Len(query) :
            /\ _compare(event, query[k]) # "True"
            /\ \A j \in 1..(k - 1) : _compare(event, query[j]) = "True"

\* C13: the conditions of a rule are evaluated in order up to the first
\* that is not true. When that one is false the alarm is unmet, without an
\* error, whatever the later conditions would do; when that one raises, the
\* error is confined to the alarm and the alarm is not fired.
C13_ShortCircuit ==
    [][\A i \in Threads, a \in AlarmIds :
          LET q == Alarms[a].rule.query
              k == FirstNotTrue(ev[i], q)
          IN (/\ Evaluates(i, a)
              /\ ~(~Alarms[a].repeat_actions /\ AlarmState(i, a) = ALARM)
              /\ BothKeys \subseteq Alarms[a].rule.keys
              /\ fnmatch(ev[i].obj.event_type.s, Alarms[a].rule.event_type)
              /\ k # 0)
             => /\ ~InvokesRefresh(i, a)
                /\ store' = store /\ caches' = caches
                /\ err'[i] = ""
                /\ pc'[i] \in {"alarms", "loop"}
                /\ outcome'[i][a] = (IF _compare(ev[i], q[k]) = "False" THEN "unmet"
                                     ELSE _compare(ev[i], q[k]))
                /\ _compare(ev[i], q[k]) # "False" => outcome'[i][a] \in AlarmErrors]_vars

\* An alarm was unmet at a false condition that stands before one that
\* raises, and another alarm's evaluation ended with a condition's error.
C13_Witness ==
    \E i \in Threads, a \in AlarmIds :
        /\ a \in DOMAIN outcome[i]
        /\ outcome[i][a] = "unmet"
        /\ \E k \in 1..Len(Alarms[a].rule.query) :
              /\ k > FirstNotTrue(ev[i], Alarms[a].rule.query)
              /\ _compare(ev[i], Alarms[a].rule.query[k]) \notin {"True", "False"}
        /\ \E b \in DOMAIN outcome[i] :
              LET k == FirstNotTrue(ev[i], Alarms[b].rule.query)
              IN /\ outcome[i][b] \in {"KeyError", "TypeError"}
                 /\ k # 0
                 /\ _compare(ev[i], Alarms[b].rule.query[k]) = outcome[i][b]

\* Thread i's step is the refresh collaborator raising for the alarm cur[i].
RefreshRaises(i) ==
    /\ pc[i] = "refresh"
    /\ pc'[i] # "refresh"
    /\ outcome'[i][cur[i]] = "RefreshError"

\* C14: when the refresh collaborator raises, the failure is confined to
\* the alarm: nothing is persisted, the cached copy is not marked, the
\* alarm is not evaluated again for the event and the loop goes on; when
\* nothing else wrote the alarm's state, the next evaluation of the alarm
\* for an event its rule holds of invokes refresh again.
C14_RefreshFailureAbandoned ==
    [][\A i \in Threads :
          /\ RefreshRaises(i)
             => /\ store' = store
                /\ caches' = caches
                /\ marked' = marked
                /\ err'[i] = ""
                /\ todo'[i] = todo[i]
                /\ cur[i] \notin todo'[i]
                /\ pc'[i] = IF todo[i] = {} THEN "loop" ELSE "alarms"
                /\ cur[i] \in failed'
          /\ \A a \in AlarmIds :
                (/\ Evaluates(i, a)
                 /\ a \in failed
                 /\ ext = MaxExt
                 /\ RuleHolds(Alarms[a], ev[i]))
                => InvokesRefresh(i, a)]_vars

\* Refresh is being called again for an alarm that does not repeat and
\* whose last refresh raised.
C14_Witness ==
    \E i \in Threads :
        /\ pc[i] = "refresh"
        /\ cur[i] \in failed
        /\ ~Alarms[cur[i]].repeat_actions
        /\ ext = MaxExt

\* C15: firing an alarm changes, in the cache, only the state of that
\* alarm's cached copy: the projects cached, the entries of the other
\* projects, and in the alarm's entry the timestamp, the alarm ids and the
\* other alarms' states stay as they are.
C15_FiringFrame ==
    [][\A i \in Threads :
          (pc[i] = "refresh" /\ pc'[i] # "refresh" /\ outcome'[i][cur[i]] = "fired")
          => LET a == cur[i]
                 p == Alarms[a].project_id
             IN /\ DOMAIN caches' = DOMAIN caches
                /\ \A q \in DOMAIN caches \ {p} : caches'[q] = caches[q]
                /\ p \in DOMAIN caches
                   => /\ caches'[p].updated = caches[p].updated
                      /\ DOMAIN caches'[p].alarms = DOMAIN caches[p].alarms
                      /\ \A b \in DOMAIN caches[p].alarms \ {a} :
                            caches'[p].alarms[b] = caches[p].alarms[b]
                      /\ now' - caches'[p].updated = now - caches[p].updated]_vars

\* An alarm fired into an entry older than the clock, beside another alarm
\* still 'ok' and the entry of another project.
C15_Witness ==
    \E i \in Threads, a \in marked :
        LET p == Alarms[a].project_id
        IN /\ a \in DOMAIN outcome[i]
           /\ outcome[i][a] = "fired"
           /\ p \in DOMAIN caches
           /\ DOMAIN caches # {p}
           /\ now > caches[p].updated
           /\ caches[p].alarms[a] = ALARM
           /\ \E b \in DOMAIN caches[p].alarms : caches[p].alarms[b] = "ok"

C17_OrderInsignificant ==
    runs # <<>> =>
       /\ runs[1].store = runs[2].store
       /\ runs[1].fires = runs[2].fires

\* C18: an alarm with repeat_actions false fires at most once: once
\* refresh has succeeded for it and persisted 'alarm', and while nothing
\* outside changes storage, refresh is never invoked for it again, whatever
\* the events, the calls, the TTL and the expiries and refetches between.
C18_AtMostOnce ==
    [][\A i \in Threads, a \in AlarmIds :
          (/\ ~Alarms[a].repeat_actions
           /\ store[a] = ALARM
           /\ ext = MaxExt)
          => ~InvokesRefresh(i, a)]_vars

\* With a positive TTL an alarm that does not repeat fired, its entry
\* expired and was fetched again, and an event its rule holds of found it
\* skipped.
C18_Witness ==
    \E i \in Threads, a \in AlarmIds :
        /\ ttl > 0
        /\ ext = MaxExt
        /\ age[i] > ttl
        /\ a \in DOMAIN outcome[i]
        /\ outcome[i][a] = "skipped"
        /\ ~Alarms[a].repeat_actions
        /\ store[a] = ALARM
        /\ RuleHolds(Alarms[a], ev[i])

\* C19: when the storage call of a lookup raises, no entry is stored for
\* the project: an entry that had expired was discarded before the call
\* and is not put back, so the next lookup of the project calls storage
\* again; a lookup, whether it succeeds or fails, leaves the entries of the
\* other projects as they are.
C19_FetchFailureFrame ==
    /\ [](\A i \in Threads :
             (pc[i] = "raised" /\ err[i] = "StorageError")
             => ev[i].project \notin DOMAIN caches)
    /\ [][\A i \in Threads :
            /\ (pc[i] = "fetch" /\ pc'[i] = "raised")
               => /\ caches' = caches
                  /\ store' = store
                  /\ ev[i].project \notin DOMAIN caches'
            /\ (pc[i] \in {"get", "fetch"} /\ pc'[i] # pc[i])
               => \A q \in (DOMAIN caches \cup DOMAIN caches') \ {ev[i].project} :
                     /\ q \in DOMAIN caches /\ q \in DOMAIN caches'
                     /\ caches'[q] = caches[q]
            /\ (Looks(i) /\ ev[i].project \notin DOMAIN caches)
               => pc'[i] = "fetch"]_vars

\* With a positive TTL an expired entry was discarded, the storage call
\* raised, and the project has no entry.
C19_Witness ==
    \E i \in Threads :
        /\ ttl > 0
        /\ pc[i] = "raised"
        /\ err[i] = "StorageError"
        /\ age[i] > ttl
        /\ ev[i].project \notin DOMAIN caches

====
